---------------------------- MODULE Spec2Model ----------------------------
(***************************************************************************)
(* Model of the JetStream buffer reader (pkg/isb/jetstream/reader.go):     *)
(* construction, Read, batch Ack, per-offset AckIt, the in-progress        *)
(* heartbeat goroutine of every offset, and Close, together with the part  *)
(* of the broker the reader talks to (pending / in-flight / ack'd messages *)
(* and the ack-wait timer).  Time is counted in whole seconds.             *)
(***************************************************************************)
EXTENDS Integers, Sequences, FiniteSets, TLC

\* ------------------------------------------------------------------ bounds
NumMsgs == 2          \* messages resident in the stream
MaxOffsets == 2       \* offsets (deliveries) created by Read over a run
MaxAckWait == 3       \* largest server-configured ack-wait, in seconds
MaxReadErrors == 1    \* cap of the read-error counter
MaxCloses == 2        \* Close calls over a run

Msgs == 1..NumMsgs
Offsets == 1..MaxOffsets
AckWaits == 1..MaxAckWait
MaxBatch == MaxOffsets
Counts == 1..NumMsgs

VARIABLES
    ackWait,      \* consumer.Config.AckWait of the durable consumer (seconds)
    rdState,      \* "none" | "ready" | "failed": result of NewJetStreamBufferReader
    ctorErr,      \* which construction step failed ("none" when it succeeded)
    conn,         \* "none" | "open" | "closed": the nats connection
    sub,          \* "none" | "active" | "unsubscribed": the pull subscription
    tickDuration, \* jr.inProgessTickDuration (seconds)
    broker,       \* per message: [st: "pending"|"inflight"|"acked", timer: ack-wait left]
    nOffsets,     \* number of offsets created so far
    off,          \* per offset: the offset object and its heartbeat goroutine
    lastRead,     \* the Read call the caller made last, if its last call was a Read
    readErrors,   \* isbReadErrors counter of this buffer
    ack,          \* the Ack call in progress, or returned last by the caller's last call
    closeCalls,   \* number of Close calls that returned (all return nil)
    closePc,      \* "idle" | "conn": position inside Close
    closeRet,     \* "none" | "nil" | "err": what the last Close returned
    unsubCalls,   \* number of sub.Unsubscribe() calls made by Close
    connCloses,   \* number of conn.Close() calls made by Close
    pl,           \* the Pipeline resource: exists, deleting (deletionTimestamp set),
                  \* finalizer held, vertices (names, in order), generation,
                  \* status phase and status observed generation
    isbSvc,       \* the InterStepBufferService the Pipeline refers to
    vertexObjs,   \* names of the Vertex objects in the namespace
    deployments,  \* names of the Deployments in the namespace
    services,     \* names of the Services in the namespace
    jobs,         \* the batch Jobs in the namespace
    result,       \* what the last reconcile returned
    call          \* the last command or builder call: function, arguments, return

jsVars == << ackWait, rdState, ctorErr, conn, sub, tickDuration, broker, nOffsets,
            off, lastRead, readErrors, ack, closeCalls, closePc, closeRet,
            unsubCalls, connCloses >>
ctlVars == << pl, isbSvc, vertexObjs, deployments, services, jobs, result >>
otherVars == << ctlVars, call >>
vars == << jsVars, ctlVars, call >>

readerVars == << rdState, ctorErr, tickDuration >>
closeVars == << closeCalls, closePc, closeRet, unsubCalls, connCloses >>

\* ------------------------------------------------------------ pure helpers
Min(a, b) == IF a < b THEN a ELSE b

\* (variant: the tick is the whole ack-wait)
InProgessTickSecondsWhole(aw) == aw

\* int64(consumer.Config.AckWait.Seconds() * 2 / 3), then raised to at least 1
InProgessTickSeconds(aw) ==
    LET t == (aw * 2) \div 3 IN IF t < 1 THEN 1 ELSE t

\* newOffset: a heartbeat is started only when tickDuration.Seconds() > 1
SpawnsHeartbeat(tick) == tick > 1

\* seq: stream sequence; hasCancel: o.cancelFunc != nil; cancelled: the
\* heartbeat's context is cancelled; hb: the heartbeat goroutine ("none" when
\* never started, "run" while in its loop, "done" once returned); tickerC: a
\* tick waits in ticker.C; tickTimer: seconds to the next tick; ackd: the
\* nats.Msg was ack'd through this handle; holder: "held" | "abandoned"
NoOffset ==
    [ seq |-> 0, hasCancel |-> FALSE, cancelled |-> FALSE, hb |-> "none",
      tickerC |-> FALSE, tickTimer |-> 0, ackd |-> FALSE, holder |-> "none" ]

\* the offset newOffset builds for message m
NewOffset(m, tick) ==
    [ seq |-> m,
      hasCancel |-> SpawnsHeartbeat(tick),
      cancelled |-> FALSE,
      hb |-> IF SpawnsHeartbeat(tick) THEN "run" ELSE "none",
      tickerC |-> FALSE,
      tickTimer |-> IF SpawnsHeartbeat(tick) THEN tick ELSE 0,
      ackd |-> FALSE,
      holder |-> "held" ]

NoRead ==
    [ ctxCancelled |-> FALSE, fetchIssued |-> FALSE, outcome |-> "none",
      n |-> 0, err |-> "nil", errorsBefore |-> 0 ]

NoAck ==
    [ pc |-> "idle", offsets |-> << >>, task |-> << >>, errs |-> << >>,
      outcome |-> << >>, wasAckd |-> << >>, wg |-> 0, doneClosed |-> FALSE ]

\* No Pipeline and no ISB service in the namespace, nothing reconciled yet.
NoPipeline ==
    [ exists |-> FALSE, deleting |-> FALSE, finalizer |-> FALSE,
      vertices |-> << >>, generation |-> 0, phase |-> "", observed |-> 0 ]

NoISBSvc == [ exists |-> FALSE, configured |-> FALSE, deployed |-> FALSE ]

NoResult == [ ran |-> "none", err |-> FALSE, requeue |-> FALSE, again |-> FALSE ]

NoCall == [ fn |-> "none" ]

Init ==
    /\ pl = NoPipeline
    /\ isbSvc = NoISBSvc
    /\ vertexObjs = {}
    /\ deployments = {}
    /\ services = {}
    /\ jobs = {}
    /\ result = NoResult
    /\ call = NoCall
    /\ ackWait \in AckWaits
    /\ rdState = "none"
    /\ ctorErr = "none"
    /\ conn = "none"
    /\ sub = "none"
    /\ tickDuration = 0
    /\ broker = [ m \in Msgs |-> [ st |-> "pending", timer |-> 0 ] ]
    /\ nOffsets = 0
    /\ off = [ o \in Offsets |-> NoOffset ]
    /\ lastRead = NoRead
    /\ readErrors = 0
    /\ ack = NoAck
    /\ closeCalls = 0
    /\ closePc = "idle"
    /\ closeRet = "none"
    /\ unsubCalls = 0
    /\ connCloses = 0

\* --------------------------------------------- NewJetStreamBufferReader
\* The step of construction that fails first, in the order the code runs them.
FirstFailure(connectOk, jsOk, subOk, optOk, infoOk) ==
    IF ~connectOk THEN "connect"
    ELSE IF ~jsOk THEN "jetstream"
    ELSE IF ~subOk THEN "subscribe"
    ELSE IF ~optOk THEN "option"
    ELSE IF ~infoOk THEN "consumerinfo"
    ELSE "none"

\* State of the connection when construction returns after failing at `step`:
\* every failure path after Connect calls conn.Close(), except a failing option.
ConnAfterCtor(step) ==
    CASE step = "connect" -> "none"
      [] step = "jetstream" -> "closed"
      [] step = "subscribe" -> "closed"
      [] step = "option" -> "open"
      [] step = "consumerinfo" -> "closed"
      [] OTHER -> "open"

\* The subscription exists once PullSubscribe succeeded; no failure path
\* unsubscribes it.
SubAfterCtor(step) ==
    IF step \in {"connect", "jetstream", "subscribe"} THEN "none" ELSE "active"

NewJetStreamBufferReader ==
    /\ rdState = "none"
    /\ \E connectOk, jsOk, subOk, optOk, infoOk \in BOOLEAN :
         LET step == FirstFailure(connectOk, jsOk, subOk, optOk, infoOk) IN
           /\ ctorErr' = step
           /\ rdState' = IF step = "none" THEN "ready" ELSE "failed"
           /\ conn' = ConnAfterCtor(step)
           /\ sub' = SubAfterCtor(step)
           /\ tickDuration' = IF step = "none" THEN InProgessTickSeconds(ackWait) ELSE 0
    /\ UNCHANGED << otherVars, ackWait, broker, nOffsets, off, lastRead, readErrors, ack >>
    /\ UNCHANGED closeVars


\* The reader has one caller (the processor's read -> process -> ack loop): it
\* starts Read, Ack or Close only when its previous call has returned, and
\* the value a call returned is gone once the next call starts.
CallerIdle == ack.pc # "running" /\ closePc = "idle"

\* ------------------------------------------------------------------- Read
Pending == { m \in Msgs : broker[m].st = "pending" }

RECURSIVE Ascending(_)
\* the members of S as a sequence in stream-sequence order
Ascending(S) ==
    IF S = {} THEN << >>
    ELSE LET lo == CHOOSE x \in S : \A y \in S : x <= y
         IN << lo >> \o Ascending(S \ {lo})

\* what sub.Fetch(count, MaxWait(readTimeOut)) can answer: the first `count`
\* pending messages, ErrTimeout when nothing is pending, or another error
\* (always possible; the only answer once unsubscribed or disconnected)
FetchOutcomes ==
    IF sub # "active" \/ conn # "open" THEN {"error"}
    ELSE IF Pending = {} THEN {"timeout", "error"}
    ELSE {"ok", "error"}

FetchMsgs(count, outcome) ==
    IF outcome = "ok"
    THEN SubSeq(Ascending(Pending), 1, Min(count, Cardinality(Pending)))
    ELSE << >>

\* Read ignores its context argument (it is named _): the fetch is always issued
FetchIssued(ctxCancelled) == TRUE

\* (variant: a timeout is treated like any other fetch error)
IsReadErrorStrict(outcome) == outcome # "ok"

\* (variant: no fetch error is reported)
IsReadErrorNever(outcome) == FALSE

\* err != nil && !errors.Is(err, nats.ErrTimeout)
IsReadError(outcome) == outcome \notin {"ok", "timeout"}

Range(s) == { s[i] : i \in 1..Len(s) }

Read(ctxCancelled, count, outcome) ==
    /\ rdState = "ready"
    /\ CallerIdle
    /\ outcome \in FetchOutcomes
    /\ LET msgs == FetchMsgs(count, outcome)
           k == Len(msgs)
       IN IF IsReadError(outcome)
          THEN /\ readErrors < MaxReadErrors
               /\ readErrors' = readErrors + 1
               /\ lastRead' = [ ctxCancelled |-> ctxCancelled,
                                fetchIssued |-> FetchIssued(ctxCancelled),
                                outcome |-> outcome, n |-> 0, err |-> "err",
                                errorsBefore |-> readErrors ]
               /\ UNCHANGED << broker, nOffsets, off >>
          ELSE /\ nOffsets + k <= MaxOffsets
               /\ readErrors' = readErrors
               /\ lastRead' = [ ctxCancelled |-> ctxCancelled,
                                fetchIssued |-> FetchIssued(ctxCancelled),
                                outcome |-> outcome, n |-> k, err |-> "nil",
                                errorsBefore |-> readErrors ]
               /\ broker' = [ m \in Msgs |->
                                IF m \in Range(msgs)
                                THEN [ st |-> "inflight", timer |-> ackWait ]
                                ELSE broker[m] ]
               /\ off' = [ o \in Offsets |->
                             IF o > nOffsets /\ o <= nOffsets + k
                             THEN NewOffset(msgs[o - nOffsets], tickDuration)
                             ELSE off[o] ]
               /\ nOffsets' = nOffsets + k
    /\ ack' = NoAck
    /\ closeRet' = "none"
    /\ UNCHANGED << otherVars, ackWait, conn, sub, closeCalls, closePc, unsubCalls, connCloses >>
    /\ UNCHANGED readerVars

\* ------------------------------------------------- offset.workInProgess
\* msg.InProgress(): refused locally once the message was ack'd through this
\* handle, fails on a closed connection, otherwise the notice reaches the broker
InProgressSent(o) == ~off[o].ackd /\ conn = "open"

\* select, case <-ticker.C: msg.InProgress(); its error is only logged
HBTick(o) ==
    /\ off[o].hb = "run"
    /\ off[o].tickerC
    /\ off' = [ off EXCEPT ![o].tickerC = FALSE ]
    /\ broker' = IF InProgressSent(o) /\ broker[off[o].seq].st = "inflight"
                 THEN [ broker EXCEPT ![off[o].seq].timer = ackWait ]
                 ELSE broker
    /\ UNCHANGED << otherVars, ackWait, conn, sub, nOffsets, lastRead, readErrors, ack >>
    /\ UNCHANGED readerVars
    /\ UNCHANGED closeVars

\* (variant: the heartbeat loop has no ctx.Done() case)
CtxDoneNever(cancelled) == FALSE

\* the case <-ctx.Done() is ready once the context is cancelled
CtxDone(cancelled) == cancelled

\* select, case <-ctx.Done(): return (the deferred ticker.Stop() runs)
HBDone(o) ==
    /\ off[o].hb = "run"
    /\ CtxDone(off[o].cancelled)
    /\ off' = [ off EXCEPT ![o].hb = "done", ![o].tickerC = FALSE, ![o].tickTimer = 0 ]
    /\ UNCHANGED << otherVars, ackWait, conn, sub, broker, nOffsets, lastRead, readErrors, ack >>
    /\ UNCHANGED readerVars
    /\ UNCHANGED closeVars

\* ------------------------------------------------------ time and broker
\* one second passes: ack-wait timers run down and every live ticker advances.
\* The broker acts on an expired ack-wait, and a heartbeat goroutine takes a
\* tick waiting in ticker.C, within the second in which it became due.
AdvanceTime ==
    /\ \A m \in Msgs : broker[m].st = "inflight" => broker[m].timer > 0
    /\ \A o \in Offsets : off[o].hb = "run" => ~off[o].tickerC
    /\ \/ \E m \in Msgs : broker[m].st = "inflight"
       \/ \E o \in Offsets : off[o].hb = "run"
    /\ broker' = [ m \in Msgs |->
                     IF broker[m].st = "inflight"
                     THEN [ broker[m] EXCEPT !.timer = @ - 1 ]
                     ELSE broker[m] ]
    /\ off' = [ o \in Offsets |->
                  IF off[o].hb = "run"
                  THEN IF off[o].tickTimer = 1
                       THEN [ off[o] EXCEPT !.tickTimer = tickDuration, !.tickerC = TRUE ]
                       ELSE [ off[o] EXCEPT !.tickTimer = @ - 1 ]
                  ELSE off[o] ]
    /\ UNCHANGED << otherVars, ackWait, conn, sub, nOffsets, lastRead, readErrors, ack >>
    /\ UNCHANGED readerVars
    /\ UNCHANGED closeVars

\* ack-wait of an in-flight message expired: the broker makes it deliverable again
Expire(m) ==
    /\ broker[m].st = "inflight"
    /\ broker[m].timer = 0
    /\ broker' = [ broker EXCEPT ![m].st = "pending" ]
    /\ UNCHANGED << otherVars, ackWait, conn, sub, nOffsets, off, lastRead, readErrors, ack >>
    /\ UNCHANGED readerVars
    /\ UNCHANGED closeVars


\* --------------------------------------------- jetStreamReader.Ack, AckIt
Held == { o \in 1..nOffsets : off[o].holder = "held" }

\* the batches a caller can pass: any offsets it still holds, repeats included
AckBatches == UNION { [ 1..n -> Held ] : n \in 0..MaxBatch }

\* errs := make([]error, len(offsets)); one goroutine and one wg.Add(1) per offset
AckInvoke(offsets) ==
    /\ CallerIdle
    /\ offsets \in AckBatches
    /\ ack' = [ pc |-> "running",
                offsets |-> offsets,
                task |-> [ i \in 1..Len(offsets) |-> "start" ],
                errs |-> [ i \in 1..Len(offsets) |-> "nil" ],
                outcome |-> [ i \in 1..Len(offsets) |-> "none" ],
                wasAckd |-> [ i \in 1..Len(offsets) |-> FALSE ],
                wg |-> Len(offsets),
                doneClosed |-> FALSE ]
    /\ lastRead' = NoRead
    /\ closeRet' = "none"
    /\ UNCHANGED << otherVars, ackWait, conn, sub, broker, nOffsets, off, readErrors,
                    closeCalls, closePc, unsubCalls, connCloses >>
    /\ UNCHANGED readerVars

\* (variant: AckIt does not call cancelFunc before the ack)
CtxNotCancelled(hasCancel, cancelled) == cancelled

\* if o.cancelFunc != nil { o.cancelFunc() }: the context after the first
\* statement of AckIt
CtxAfterCancel(hasCancel, cancelled) == IF hasCancel THEN TRUE ELSE cancelled

\* AckIt, first statement: cancel the heartbeat's context
AckItCancel(i) ==
    /\ ack.pc = "running"
    /\ i \in 1..Len(ack.offsets)
    /\ ack.task[i] = "start"
    /\ LET o == ack.offsets[i] IN
         off' = [ off EXCEPT ![o].cancelled = CtxAfterCancel(off[o].hasCancel, @) ]
    /\ ack' = [ ack EXCEPT !.task[i] = "acksync" ]
    /\ UNCHANGED << otherVars, ackWait, conn, sub, broker, nOffsets, lastRead, readErrors >>
    /\ UNCHANGED readerVars
    /\ UNCHANGED closeVars

\* (variant: a handle whose heartbeat was cancelled answers already ack'd)
AckSyncOutcomesCancelled(o) ==
    IF off[o].ackd \/ off[o].cancelled THEN {"alreadyAckd"}
    ELSE IF conn # "open" THEN {"error"}
    ELSE {"ok", "notFound", "error"}

\* what o.msg.AckSync() can answer: ErrMsgAlreadyAckd once this handle was
\* ack'd, an error on a closed connection, otherwise the broker's reply
AckSyncOutcomes(o) ==
    IF off[o].ackd THEN {"alreadyAckd"}
    ELSE IF conn # "open" THEN {"error"}
    ELSE {"ok", "notFound", "error"}

\* (variant: every broker error is returned, nothing is coerced to success)
AckItResultNoCoerce(outcome) == IF outcome = "ok" THEN "nil" ELSE "err"

\* err != nil && !errors.Is(err, ErrMsgAlreadyAckd) && !errors.Is(err, ErrMsgNotFound)
AckItResult(outcome) ==
    IF outcome \in {"ok", "alreadyAckd", "notFound"} THEN "nil" ELSE "err"

\* the slot of errs the goroutine started for offsets[index] writes
ErrSlot(index) == index

\* AckIt, second statement: the synchronous broker ack; then errs[index] = err
\* (only when err != nil) and the deferred wg.Done()
AckItAckSync(i, outcome) ==
    /\ ack.pc = "running"
    /\ i \in 1..Len(ack.offsets)
    /\ ack.task[i] = "acksync"
    /\ LET o == ack.offsets[i] IN
         /\ outcome \in AckSyncOutcomes(o)
         /\ off' = [ off EXCEPT ![o].ackd = @ \/ outcome = "ok" ]
         /\ broker' = IF outcome = "ok"
                      THEN [ broker EXCEPT ![off[o].seq] = [ st |-> "acked", timer |-> 0 ] ]
                      ELSE broker
         /\ ack' = [ ack EXCEPT !.task[i] = "done",
                                !.outcome[i] = outcome,
                                !.wasAckd[i] = off[o].ackd,
                                !.errs[ErrSlot(i)] =
                                    IF AckItResult(outcome) # "nil"
                                    THEN AckItResult(outcome) ELSE @,
                                !.wg = @ - 1 ]
    /\ UNCHANGED << otherVars, ackWait, conn, sub, nOffsets, lastRead, readErrors >>
    /\ UNCHANGED readerVars
    /\ UNCHANGED closeVars

\* (variant: the wait ends while one task is still running)
WaitOverEarly(wg) == wg <= 1

\* wg.Wait() is over when the counter is back to zero
WaitOver(wg) == wg = 0

\* go func() { wg.Wait(); close(done) }()
AckWaiter ==
    /\ ack.pc = "running"
    /\ ~ack.doneClosed
    /\ WaitOver(ack.wg)
    /\ ack' = [ ack EXCEPT !.doneClosed = TRUE ]
    /\ UNCHANGED << otherVars, ackWait, conn, sub, broker, nOffsets, off, lastRead, readErrors >>
    /\ UNCHANGED readerVars
    /\ UNCHANGED closeVars

\* <-done; return errs
AckReturn ==
    /\ ack.pc = "running"
    /\ ack.doneClosed
    /\ ack' = [ ack EXCEPT !.pc = "returned" ]
    /\ UNCHANGED << otherVars, ackWait, conn, sub, broker, nOffsets, off, lastRead, readErrors >>
    /\ UNCHANGED readerVars
    /\ UNCHANGED closeVars

\* the holder of a delivered message drops it without ever calling AckIt
Abandon(o) ==
    /\ o \in Held
    /\ CallerIdle
    /\ ~off[o].cancelled
    /\ ~off[o].ackd
    /\ off' = [ off EXCEPT ![o].holder = "abandoned" ]
    /\ UNCHANGED << otherVars, ackWait, conn, sub, broker, nOffsets, lastRead, readErrors, ack >>
    /\ UNCHANGED readerVars
    /\ UNCHANGED closeVars

\* ------------------------------------------------- jetStreamReader.Close
\* Close, first statement: if jr.sub != nil, jr.sub.Unsubscribe(); an error
\* (second call, closed connection) is only logged
CloseUnsubscribe ==
    /\ rdState = "ready"
    /\ CallerIdle
    /\ closeCalls < MaxCloses
    /\ IF sub # "none"
       THEN /\ unsubCalls' = unsubCalls + 1
            /\ sub' = "unsubscribed"
       ELSE UNCHANGED << unsubCalls, sub >>
    /\ closePc' = "conn"
    /\ closeRet' = "none"
    /\ lastRead' = NoRead
    /\ ack' = NoAck
    /\ UNCHANGED << otherVars, ackWait, conn, broker, nOffsets, off, readErrors,
                    closeCalls, connCloses >>
    /\ UNCHANGED readerVars

\* (variant: the IsClosed() test is missing)
ShouldCloseConnAlways(c) == c # "none"

\* jr.conn != nil && !jr.conn.IsClosed()
ShouldCloseConn(c) == c = "open"

\* Close ends with return nil, whatever Unsubscribe answered
CloseResult(unsubFailed) == "nil"

\* Close, second statement: close the connection unless already closed; return
CloseConn ==
    /\ closePc = "conn"
    /\ IF ShouldCloseConn(conn)
       THEN /\ conn' = "closed"
            /\ connCloses' = connCloses + 1
       ELSE UNCHANGED << conn, connCloses >>
    /\ closeRet' = CloseResult(closeCalls > 0)
    /\ closeCalls' = closeCalls + 1
    /\ closePc' = "idle"
    /\ UNCHANGED << otherVars, ackWait, sub, broker, nOffsets, off, lastRead, readErrors, ack,
                    unsubCalls >>
    /\ UNCHANGED readerVars

\* ------------------------------------------------------- specification
Next ==
    \/ NewJetStreamBufferReader
    \/ \E c \in BOOLEAN, n \in Counts, r \in {"ok", "timeout", "error"} : Read(c, n, r)
    \/ \E o \in Offsets : HBTick(o)
    \/ \E o \in Offsets : HBDone(o)
    \/ AdvanceTime
    \/ \E m \in Msgs : Expire(m)
    \/ \E b \in AckBatches : AckInvoke(b)
    \/ \E i \in 1..MaxBatch : AckItCancel(i)
    \/ \E i \in 1..MaxBatch, r \in {"ok", "alreadyAckd", "notFound", "error"} : AckItAckSync(i, r)
    \/ AckWaiter
    \/ AckReturn
    \/ \E o \in Offsets : Abandon(o)
    \/ CloseUnsubscribe
    \/ CloseConn

Spec == Init /\ [][Next]_vars

\* Scheduling: time passes, the broker acts on an expired ack-wait, a
\* heartbeat goroutine that can run eventually runs, and its select, with
\* ctx.Done() ready, picks that case sooner or later (Go chooses among the
\* ready cases at random).  Nothing is assumed of the caller.
Fairness ==
    /\ WF_vars(AdvanceTime)
    /\ \A m \in Msgs : WF_vars(Expire(m))
    /\ \A o \in Offsets : WF_vars(HBTick(o))
    /\ \A o \in Offsets : SF_vars(HBDone(o))

FairSpec == Spec /\ Fairness


\* ================================================================ claims
DoneTasks == { i \in 1..Len(ack.offsets) : ack.task[i] = "done" }

\* AckIt has been invoked on offset o by a task of the current Ack call
AckItInvoked(o) ==
    \E i \in 1..Len(ack.offsets) : ack.offsets[i] = o /\ ack.task[i] # "start"

\* C1: when Ack has returned, every per-offset task has finished, the error
\* slice has one entry per offset, and entry i is nil exactly when the AckIt
\* of offsets[i] succeeded, whatever happened to the other offsets.
C1_AckPositional ==
    ack.pc = "returned" =>
        /\ Len(ack.errs) = Len(ack.offsets)
        /\ \A i \in 1..Len(ack.offsets) :
             /\ ack.task[i] = "done"
             /\ (ack.errs[i] = "nil") <=> (ack.outcome[i] # "error")

C1_Witness ==
    /\ ack.pc = "returned"
    /\ Len(ack.offsets) = 2
    /\ ack.offsets[1] # ack.offsets[2]
    /\ ack.errs[1] = "err"
    /\ ack.errs[2] = "nil"

\* C2 (as claimed): once AckIt has been invoked on an offset (its context is
\* cancelled), no step of its heartbeat sends an in-progress notice to the
\* broker.
C2_NoNoticeAfterAckIt ==
    [][ \A o \in Offsets :
          (HBTick(o) /\ InProgressSent(o)) => ~off[o].cancelled ]_vars

\* C2 (amended): AckIt cancels the heartbeat's context before the broker ack
\* round-trip: whenever a task is at or past its AckSync, the context of its
\* offset's heartbeat is cancelled.
C2_CancelBeforeAckSync ==
    \A i \in 1..Len(ack.offsets) :
        (ack.task[i] \in {"acksync", "done"} /\ off[ack.offsets[i]].hasCancel)
            => off[ack.offsets[i]].cancelled

\* a task about to do its AckSync while a tick of its heartbeat is waiting
C2_Witness ==
    \E i \in 1..Len(ack.offsets) :
        /\ ack.task[i] = "acksync"
        /\ off[ack.offsets[i]].hb = "run"
        /\ off[ack.offsets[i]].tickerC
        /\ off[ack.offsets[i]].cancelled

\* C3: after Close has returned, the heartbeat of every delivered message is
\* cancelled (none keeps running with a live context).
C3_CloseCancelsHeartbeats ==
    closeCalls > 0 =>
        \A o \in 1..nOffsets : off[o].hb = "run" => off[o].cancelled

\* C4: a message whose holder abandoned it does not stay in flight for ever:
\* its ack-wait eventually expires (or it is ack'd through another delivery).
C4_AbandonedIsRedelivered ==
    \A o \in Offsets :
        (off[o].holder = "abandoned")
            ~> (off[o].seq \in Msgs /\ broker[off[o].seq].st # "inflight")

\* C5: AckIt returns nil when the broker ack succeeds or answers already
\* ack'd / not found, and an error only otherwise; an AckIt on an offset that
\* was already ack'd returns nil.
C5_AckItIdempotent ==
    \A i \in DoneTasks :
        /\ ack.outcome[i] \in {"ok", "alreadyAckd", "notFound"} => ack.errs[i] = "nil"
        /\ ack.errs[i] = "err" => ack.outcome[i] = "error"
        /\ ack.wasAckd[i] => ack.errs[i] = "nil"

\* the same offset twice in one batch: ack'd by one task, already ack'd for
\* the other, nil for both
C5_Witness ==
    /\ ack.pc = "returned"
    /\ Len(ack.offsets) = 2
    /\ ack.offsets[1] = ack.offsets[2]
    /\ \E i \in 1..2 : ack.wasAckd[i] /\ ack.outcome[i] = "alreadyAckd"
    /\ ack.errs = << "nil", "nil" >>

\* C6: once AckIt has been invoked on an offset that has a heartbeat, the
\* heartbeat goroutine eventually returns.
C6_AckStopsHeartbeat ==
    \A o \in Offsets :
        (AckItInvoked(o) /\ off[o].hasCancel) ~> (off[o].hb = "done")

C6_Witness ==
    \E o \in Offsets : AckItInvoked(o) /\ off[o].hasCancel /\ off[o].hb = "done"

\* C7: when construction has failed, the connection is not left open.
C7_CtorFailureReleasesConn ==
    rdState = "failed" => conn # "open"

\* C8: a Read whose fetch timed out returned an empty batch and a nil error
\* and left the read-error counter as it was.
C8_ReadTimeoutNotError ==
    lastRead.outcome = "timeout" =>
        /\ lastRead.n = 0
        /\ lastRead.err = "nil"
        /\ readErrors = lastRead.errorsBefore

C8_Witness ==
    /\ lastRead.outcome = "timeout"
    /\ lastRead.n = 0
    /\ lastRead.err = "nil"

\* C9: a Read given a cancelled context issues no broker fetch.
C9_CancelledReadSkipsFetch ==
    (lastRead.outcome # "none" /\ lastRead.ctxCancelled) => ~lastRead.fetchIssued

\* C10: every Close returns nil, each Close unsubscribes before it closes the
\* connection, and over all Close calls the connection is closed at most once.
C10_CloseIdempotent ==
    /\ closeRet \in {"none", "nil"}
    /\ connCloses <= 1
    /\ closePc = "conn" => unsubCalls = closeCalls + 1
    /\ closePc = "idle" => unsubCalls = closeCalls
    /\ closeCalls > 0 => conn = "closed"

C10_Witness ==
    /\ closeCalls = 2
    /\ closeRet = "nil"
    /\ connCloses = 1
    /\ unsubCalls = 2


\* ====================================================== pipeline controller
\* The Pipeline reconciler with the objects it manages in one namespace, and
\* what the user and the cluster do around it: creating, editing and deleting
\* the Pipeline, the ISB service coming and going, garbage collection.

MaxUdfs == 1           \* UDF vertices between the source and the sink
MaxGenerations == 2    \* metadata.generation of the Pipeline: 1 + spec edits

PipelineName == "test-pl"
UdfNames == { "cat", "filter" }

\* sequences of distinct UDF names, at most n long
RECURSIVE UdfSeqs(_)
UdfSeqs(n) ==
    IF n = 0 THEN { << >> }
    ELSE LET shorter == UdfSeqs(n - 1)
         IN shorter \cup { Append(s, u) : s \in shorter, u \in UdfNames }

\* the vertices of a pipeline: a source, UDFs, a sink; names unique
VertexLists ==
    { << "input" >> \o u \o << "output" >> :
        u \in { s \in UdfSeqs(MaxUdfs) :
                  \A i, j \in 1..Len(s) : i # j => s[i] # s[j] } }

\* the edges of input -> ... -> output, as (from, to) pairs
ChainEdges(vs) == { << vs[i], vs[i + 1] >> : i \in 1..(Len(vs) - 1) }

ISBSvcStates ==
    { NoISBSvc } \cup
    { [ exists |-> TRUE, configured |-> c, deployed |-> d ] : c, d \in BOOLEAN }

ISBSvcReadyConfiguredOnly(svc) == svc.exists /\ svc.configured

\* status.IsReady(): both conditions true
ISBSvcReady(svc) == svc.exists /\ svc.configured /\ svc.deployed

\* ------------------------------------------------------------ buildVertices
VertexKeyBare(name, v) == v

\* the key of a vertex in the map, and the name of its Vertex object
VertexKey(name, v) == name \o "-" \o v

\* the map the builder fills in one pass over p.vertices, the first i of them
RECURSIVE BuildVerticesUpTo(_, _, _, _)
BuildVerticesUpTo(name, vs, edges, i) ==
    IF i = 0 THEN << >>
    ELSE LET v == vs[i]
             obj == [ pipelineName |-> name,
                      name |-> v,
                      replicas |-> 1,
                      fromVertices |-> { e[1] : e \in { x \in edges : x[2] = v } },
                      toVertices |-> { e[2] : e \in { x \in edges : x[1] = v } } ]
         IN (VertexKey(name, v) :> obj) @@ BuildVerticesUpTo(name, vs, edges, i - 1)

buildVertices(name, vs, edges) == BuildVerticesUpTo(name, vs, edges, Len(vs))

\* ------------------------------------------------------------------- Jobs
\* the hash of the Pipeline spec a Job name ends with: a digest of the vertices
RECURSIVE SpecHash(_)
SpecHash(vs) ==
    IF vs = << >> THEN "" ELSE Head(vs) \o "." \o SpecHash(Tail(vs))

\* buildISBBatchJob: <pipeline>-buffer-<jobType>-<suffix>; owner: the Job
\* carries an ownerReference to the Pipeline
buildISBBatchJob(name, jobType, suffix, owner) ==
    [ name |-> name \o "-buffer-" \o jobType \o "-" \o suffix, owner |-> owner ]

JobExistsNever(js, jobName) == FALSE

\* a Job of this name is in the namespace
JobExists(js, jobName) == \E j \in js : j.name = jobName

\* ---------------------------------------------------- the user, the cluster
\* kubectl apply of a new Pipeline
CreatePipeline(vs) ==
    /\ ~pl.exists
    /\ pl.generation = 0
    /\ pl' = [ NoPipeline EXCEPT !.exists = TRUE, !.vertices = vs, !.generation = 1 ]
    /\ UNCHANGED << isbSvc, vertexObjs, deployments, services, jobs, result >>
    /\ UNCHANGED << jsVars, call >>

\* kubectl apply of a changed spec: a new generation
EditPipeline(vs) ==
    /\ pl.exists
    /\ ~pl.deleting
    /\ vs # pl.vertices
    /\ pl.generation < MaxGenerations
    /\ pl' = [ pl EXCEPT !.vertices = vs, !.generation = @ + 1 ]
    /\ UNCHANGED << isbSvc, vertexObjs, deployments, services, jobs, result >>
    /\ UNCHANGED << jsVars, call >>

\* kubectl delete: with a finalizer the object stays, marked as being deleted
DeletePipeline ==
    /\ pl.exists
    /\ ~pl.deleting
    /\ pl' = IF pl.finalizer THEN [ pl EXCEPT !.deleting = TRUE ]
             ELSE [ pl EXCEPT !.exists = FALSE ]
    /\ UNCHANGED << isbSvc, vertexObjs, deployments, services, jobs, result >>
    /\ UNCHANGED << jsVars, call >>

\* the ISB service is created, removed, or its conditions change
ISBSvcChange(svc) ==
    /\ svc # isbSvc
    /\ isbSvc' = svc
    /\ UNCHANGED << pl, vertexObjs, deployments, services, jobs, result >>
    /\ UNCHANGED << jsVars, call >>

\* Kubernetes garbage collection: once the Pipeline is gone, every object
\* carrying an ownerReference to it is removed
GarbageCollect ==
    /\ ~pl.exists
    /\ \/ vertexObjs # {}
       \/ deployments # {}
       \/ services # {}
       \/ \E j \in jobs : j.owner
    /\ vertexObjs' = {}
    /\ deployments' = {}
    /\ services' = {}
    /\ jobs' = { j \in jobs : ~j.owner }
    /\ UNCHANGED << pl, isbSvc, result >>
    /\ UNCHANGED << jsVars, call >>

\* --------------------------------------------------------------- Reconcile
\* ran: the branch the reconcile took; again: it found the Pipeline already
\* reconciled at its current generation
Result(ran, err, requeue, again) ==
    [ ran |-> ran, err |-> err, requeue |-> requeue, again |-> again ]

AddFinalizerReturnsEarly == TRUE

\* whether the reconcile that adds the finalizer returns before going on
AddFinalizerReturns == FALSE

NeedsCleanupJobAlways(svc) == TRUE

\* cleanUpBuffers submits a Job when the ISB service is there and healthy
NeedsCleanupJob(svc) == ISBSvcReady(svc)

CleanupJobOwned == TRUE

\* batchJob.OwnerReferences of the cleanup Job: none
CleanupJobOwner == FALSE

\* the finalizer goes only when cleanUpBuffers returned no error
RemoveFinalizer(cleanupErr) == ~cleanupErr

\* the API server refuses to create an object whose name is taken
AlreadyExists(js, j) == \E x \in js : x.name = j.name

\* the names of the Vertex objects the Pipeline asks for
DesiredVertices(p) ==
    DOMAIN buildVertices(PipelineName, p.vertices, ChainEdges(p.vertices))

DaemonDeploymentName == PipelineName \o "-daemon"
DaemonServiceName == PipelineName \o "-daemon-svc"

\* One reconcile of the Pipeline, from fetch to status.  submitOk: the API
\* server accepts the cleanup Job (the input of the deletion branch).
Reconcile(submitOk) ==
    LET hash == SpecHash(pl.vertices)
        again == pl.exists /\ pl.observed = pl.generation
        withFinalizer == [ pl EXCEPT !.finalizer = TRUE ]
        cleanupJob == buildISBBatchJob(PipelineName, "cleanup", hash, CleanupJobOwner)
        createJob == buildISBBatchJob(PipelineName, "create", hash, TRUE)
        mustCreate == ~JobExists(jobs, createJob.name)
        createErr == mustCreate /\ AlreadyExists(jobs, createJob)
    IN
    /\ submitOk \/ (pl.exists /\ pl.deleting /\ pl.finalizer /\ NeedsCleanupJob(isbSvc))
    /\ IF ~pl.exists
       THEN \* 1. fetch: gone already
            /\ result' = Result("absent", FALSE, FALSE, FALSE)
            /\ UNCHANGED << pl, vertexObjs, deployments, services, jobs >>
       ELSE IF pl.deleting
       THEN \* 2. cleanup, then drop the finalizer: the object goes
            IF ~pl.finalizer
            THEN /\ result' = Result("deleting", FALSE, FALSE, FALSE)
                 /\ UNCHANGED << pl, vertexObjs, deployments, services, jobs >>
            ELSE LET submits == NeedsCleanupJob(isbSvc)
                     cleanupErr == submits /\ (~submitOk \/ AlreadyExists(jobs, cleanupJob))
                 IN /\ jobs' = IF submits /\ ~cleanupErr
                               THEN jobs \cup { cleanupJob } ELSE jobs
                    /\ pl' = IF RemoveFinalizer(cleanupErr)
                             THEN [ pl EXCEPT !.finalizer = FALSE, !.exists = FALSE,
                                              !.phase = "Deleting" ]
                             ELSE [ pl EXCEPT !.phase = "Deleting" ]
                    /\ result' = Result("cleanup", cleanupErr, cleanupErr, FALSE)
                    /\ UNCHANGED << vertexObjs, deployments, services >>
       ELSE IF ~pl.finalizer /\ AddFinalizerReturns
       THEN /\ pl' = withFinalizer
            /\ result' = Result("finalizer", FALSE, TRUE, FALSE)
            /\ UNCHANGED << vertexObjs, deployments, services, jobs >>
       ELSE IF ~ISBSvcReady(isbSvc)
       THEN \* 3. wait for the ISB service
            /\ pl' = [ withFinalizer EXCEPT !.phase = "Waiting" ]
            /\ result' = Result("waiting", FALSE, TRUE, again)
            /\ UNCHANGED << vertexObjs, deployments, services, jobs >>
       ELSE \* 4-9. vertices, daemon, buffer-create Job, status
            /\ vertexObjs' = DesiredVertices(pl)
            /\ deployments' = deployments \cup { DaemonDeploymentName }
            /\ services' = services \cup { DaemonServiceName }
            /\ jobs' = IF mustCreate /\ ~createErr THEN jobs \cup { createJob } ELSE jobs
            /\ pl' = IF createErr THEN withFinalizer
                     ELSE [ withFinalizer EXCEPT !.phase = "Running",
                                                 !.observed = pl.generation ]
            /\ result' = Result("reconciled", createErr, createErr, again)
    /\ UNCHANGED isbSvc
    /\ UNCHANGED << jsVars, call >>

ReconcilerNext ==
    \/ \E vs \in VertexLists : CreatePipeline(vs)
    \/ \E vs \in VertexLists : EditPipeline(vs)
    \/ DeletePipeline
    \/ \E svc \in ISBSvcStates : ISBSvcChange(svc)
    \/ GarbageCollect
    \/ \E submitOk \in BOOLEAN : Reconcile(submitOk)

ReconcilerSpec == Init /\ [][ReconcilerNext]_vars

\* ------------------------------------------------- claims on the controller
ReconcileStep == \E submitOk \in BOOLEAN : Reconcile(submitOk)

CreateJobName(p) == PipelineName \o "-buffer-create-" \o SpecHash(p.vertices)

\* C11: a reconcile of a Pipeline that is not being deleted, with the ISB
\* service there, Configured and Deployed, leaves exactly one Vertex object per
\* pipeline vertex, named <pipeline>-<vertex>, and exactly one buffer-create
\* Job of the Pipeline's spec, creates at most one Job (exactly one when there
\* was none), and returns no error.
C11_ReconcileCreates ==
    [][ (ReconcileStep /\ pl.exists /\ ~pl.deleting /\ ISBSvcReady(isbSvc))
        => /\ Cardinality(vertexObjs') = Len(pl.vertices)
           /\ vertexObjs' = { PipelineName \o "-" \o pl.vertices[i] :
                                i \in 1..Len(pl.vertices) }
           /\ Cardinality({ j \in jobs' : j.name = CreateJobName(pl) }) = 1
           /\ Cardinality(jobs' \ jobs) <= 1
           /\ (jobs = {} => Cardinality(jobs') = 1)
           /\ ~result'.err ]_vars

\* the first reconcile of input -> cat -> output has run: 3 Vertex objects, 1 Job
C11_Witness ==
    /\ pl.exists
    /\ pl.vertices = << "input", "cat", "output" >>
    /\ result.ran = "reconciled"
    /\ ~result.again
    /\ ~result.err
    /\ Cardinality(vertexObjs) = 3
    /\ Cardinality(jobs) = 1

\* C12: a reconcile of a Pipeline that was already reconciled at its current
\* generation (the Pipeline is unchanged since) changes neither the Vertex
\* objects, nor the daemon Deployment and Service, nor the Jobs (no second
\* buffer-create Job for the same spec hash), and returns no error.
C12_ReconcileIdempotent ==
    [][ (ReconcileStep /\ pl.exists /\ ~pl.deleting /\ pl.observed = pl.generation)
        => /\ UNCHANGED << vertexObjs, deployments, services, jobs >>
           /\ ~result'.err ]_vars

\* a repeated reconcile of the unchanged 3-vertex Pipeline has run
C12_Witness ==
    /\ pl.exists
    /\ pl.observed = pl.generation
    /\ result.ran = "reconciled"
    /\ result.again
    /\ Cardinality(vertexObjs) = 3
    /\ deployments = { DaemonDeploymentName }
    /\ services = { DaemonServiceName }
    /\ Cardinality(jobs) = 1

\* C13: while the ISB service is missing or not both Configured and Deployed,
\* a reconcile of a Pipeline that is not being deleted puts it in Waiting,
\* asks for a requeue, and leaves the Vertex objects, Deployments, Services
\* and Jobs as they were.
C13_WaitingMutatesNothing ==
    [][ (/\ ReconcileStep
         /\ pl.exists
         /\ ~pl.deleting
         /\ ~(isbSvc.exists /\ isbSvc.configured /\ isbSvc.deployed))
        => /\ pl'.phase = "Waiting"
           /\ result'.requeue
           /\ UNCHANGED << vertexObjs, deployments, services, jobs >> ]_vars

\* a reconcile waited for the ISB service while objects of an earlier
\* reconcile were in the namespace
C13_Witness ==
    /\ pl.exists
    /\ ~pl.deleting
    /\ pl.phase = "Waiting"
    /\ result.ran = "waiting"
    /\ result.requeue
    /\ vertexObjs # {}
    /\ jobs # {}
    /\ isbSvc.exists
    /\ ~isbSvc.deployed

\* t occurs in s (strings.Contains)
Contains(s, t) ==
    \E i \in 1..(Len(s) - Len(t) + 1) : SubSeq(s, i, i + Len(t) - 1) = t

CleanupJobs(js) == { j \in js : Contains(j.name, "cleanup") }

\* C14: a reconcile of a Pipeline that is being deleted, while its ISB service
\* does not exist, returns no error, creates no Job, and removes the finalizer
\* (the Pipeline goes).
C14_CleanupWithoutISBSvc ==
    [][ (ReconcileStep /\ pl.exists /\ pl.deleting /\ pl.finalizer /\ ~isbSvc.exists)
        => /\ ~result'.err
           /\ jobs' = jobs
           /\ ~pl'.finalizer
           /\ ~pl'.exists ]_vars

\* the Pipeline is gone after a cleanup that submitted no Job, no ISB service
C14_Witness ==
    /\ ~pl.exists
    /\ pl.generation > 0
    /\ result.ran = "cleanup"
    /\ ~result.err
    /\ ~isbSvc.exists
    /\ CleanupJobs(jobs) = {}

\* C15: a reconcile of a Pipeline that is being deleted, while its ISB service
\* is there, Configured and Deployed, submits at most one Job and exactly one
\* unless it returns an error; the Job's name contains "cleanup" and it has no
\* ownerReference; and the finalizer is removed in that reconcile only if the
\* cleanup Job is there.
C15_CleanupWithISBSvc ==
    [][ (/\ ReconcileStep
         /\ pl.exists
         /\ pl.deleting
         /\ pl.finalizer
         /\ isbSvc.exists /\ isbSvc.configured /\ isbSvc.deployed)
        => /\ Cardinality(jobs' \ jobs) <= 1
           /\ (~result'.err => Cardinality(jobs' \ jobs) = 1)
           /\ \A j \in jobs' \ jobs : Contains(j.name, "cleanup") /\ ~j.owner
           /\ (~pl'.finalizer => \E j \in CleanupJobs(jobs') : ~j.owner) ]_vars

\* the Pipeline is gone, its owned objects are collected, and the cleanup Job
\* is still there
C15_Witness ==
    /\ ~pl.exists
    /\ result.ran = "cleanup"
    /\ ~result.err
    /\ vertexObjs = {}
    /\ Cardinality(CleanupJobs(jobs)) = 1
    /\ \A j \in jobs : Contains(j.name, "cleanup") /\ ~j.owner


\* ================================================= builders and comparisons
\* The pure functions of the controller, each applied to inputs drawn from
\* bounded sets; call holds the function, its arguments and what it returned.
\* A behaviour makes one call.

MaxLimitValue == 2     \* values a limit field takes: 1..MaxLimitValue
MaxEdges == 1          \* edges handed to copyEdgeLimits

\* an optional value (a Go pointer): Nil, or Some(x)
Nil == << >>
Some(x) == << x >>

LimitValues == { Nil } \cup { Some(n) : n \in 1..MaxLimitValue }

\* *PipelineLimits, *VertexLimits, *EdgeLimits: nil, or a struct of optional fields
PipelineLimits ==
    { Nil } \cup
    { Some([ readBatchSize |-> a, readTimeout |-> b,
             bufferMaxLength |-> c, bufferUsageLimit |-> d ]) :
        a \in LimitValues, b \in LimitValues, c \in LimitValues, d \in LimitValues }

VertexLimits ==
    { Nil } \cup
    { Some([ readBatchSize |-> a, readTimeout |-> b ]) :
        a \in LimitValues, b \in LimitValues }

EdgeLimits ==
    { Nil } \cup
    { Some([ bufferMaxLength |-> c, bufferUsageLimit |-> d ]) :
        c \in LimitValues, d \in LimitValues }

EdgeLimitLists == UNION { [ 1..n -> EdgeLimits ] : n \in 0..MaxEdges }

\* field f of limits l; a nil l sets no field
Field(l, f) == IF l = Nil THEN Nil ELSE l[1][f]

MergeFieldPipelineFirst(own, fromPipeline) ==
    IF fromPipeline # Nil THEN fromPipeline ELSE own

\* one field of the merge: the own value when set, else the pipeline's
MergeField(own, fromPipeline) == IF own # Nil THEN own ELSE fromPipeline

\* copyVertexLimits(pl, v): v.Limits afterwards
copyVertexLimits(plLimits, vLimits) ==
    IF plLimits = Nil THEN vLimits
    ELSE Some([ readBatchSize |->
                  MergeField(Field(vLimits, "readBatchSize"),
                             Field(plLimits, "readBatchSize")),
                readTimeout |->
                  MergeField(Field(vLimits, "readTimeout"),
                             Field(plLimits, "readTimeout")) ])

\* the Limits of one edge copyEdgeLimits returns
copyEdgeLimit(plLimits, eLimits) ==
    IF plLimits = Nil THEN eLimits
    ELSE Some([ bufferMaxLength |->
                  MergeField(Field(eLimits, "bufferMaxLength"),
                             Field(plLimits, "bufferMaxLength")),
                bufferUsageLimit |->
                  MergeField(Field(eLimits, "bufferUsageLimit"),
                             Field(plLimits, "bufferUsageLimit")) ])

\* copyEdgeLimits(pl, edges): the Limits of the edges returned, in order
copyEdgeLimits(plLimits, edgeLimits) ==
    [ i \in 1..Len(edgeLimits) |-> copyEdgeLimit(plLimits, edgeLimits[i]) ]

CallCopyVertexLimits ==
    /\ call = NoCall
    /\ \E plLimits \in PipelineLimits, vLimits \in VertexLimits :
         call' = [ fn |-> "copyVertexLimits", pl |-> plLimits, own |-> vLimits,
                   ret |-> copyVertexLimits(plLimits, vLimits) ]
    /\ UNCHANGED << jsVars, ctlVars >>

CallCopyEdgeLimits ==
    /\ call = NoCall
    /\ \E plLimits \in PipelineLimits, edgeLimits \in EdgeLimitLists :
         call' = [ fn |-> "copyEdgeLimits", pl |-> plLimits, own |-> edgeLimits,
                   ret |-> copyEdgeLimits(plLimits, edgeLimits) ]
    /\ UNCHANGED << jsVars, ctlVars >>

\* ------------------------------------------------------------- needsUpdate
FinalizerName == "pipeline-controller"

\* a Pipeline object as needsUpdate sees it: metadata.finalizers, the spec
\* (its vertices), the status (its phase)
PipelineObjects ==
    { [ finalizers |-> f, vertices |-> vs, phase |-> ph ] :
        f \in SUBSET { FinalizerName, "foregroundDeletion" },
        vs \in VertexLists,
        ph \in { "", "Running" } }

\* obj.DeepCopy(): every field copied into a new object
DeepCopy(obj) ==
    [ finalizers |-> { f : f \in obj.finalizers },
      vertices |-> [ i \in 1..Len(obj.vertices) |-> obj.vertices[i] ],
      phase |-> obj.phase ]

needsUpdateOnAnyDifference(old, new) == old = Nil \/ old[1] # new

\* needsUpdate(old, new); old is Nil when there is no prior object
needsUpdate(old, new) ==
    \/ old = Nil
    \/ old[1].finalizers # new.finalizers
    \/ SpecHash(old[1].vertices) # SpecHash(new.vertices)

CallNeedsUpdate ==
    /\ call = NoCall
    /\ \E old \in { Nil } \cup { Some(x) : x \in PipelineObjects },
          new \in PipelineObjects :
         call' = [ fn |-> "needsUpdate", old |-> old, new |-> new,
                   ret |-> needsUpdate(old, new) ]
    /\ UNCHANGED << jsVars, ctlVars >>

\* ----------------------------------------------------------- buildVertices
PipelineNames == { PipelineName, "http-pipeline", "filter-pipeline" }

CallBuildVertices ==
    /\ call = NoCall
    /\ \E name \in PipelineNames, vs \in VertexLists :
         call' = [ fn |-> "buildVertices", name |-> name, vertices |-> vs,
                   ret |-> buildVertices(name, vs, ChainEdges(vs)) ]
    /\ UNCHANGED << jsVars, ctlVars >>

BuilderNext ==
    \/ CallCopyVertexLimits
    \/ CallCopyEdgeLimits
    \/ CallNeedsUpdate
    \/ CallBuildVertices

BuilderSpec == Init /\ [][BuilderNext]_vars

\* ----------------------------------------------------- claims on builders
\* C16: merging limits is per field, own value before pipeline value before
\* nil: after copyVertexLimits, ReadBatchSize and ReadTimeout of the vertex,
\* and after copyEdgeLimits, BufferMaxLength and BufferUsageLimit of every
\* edge, are the own value if set, else the pipeline's if set, else nil; and
\* with no limits on the pipeline nor on the vertex or edge, Limits stays nil.
C16_LimitPrecedence ==
    /\ call.fn = "copyVertexLimits" =>
         /\ \A f \in { "readBatchSize", "readTimeout" } :
              Field(call.ret, f) =
                IF Field(call.own, f) # Nil THEN Field(call.own, f)
                ELSE IF Field(call.pl, f) # Nil THEN Field(call.pl, f)
                ELSE Nil
         /\ (call.pl = Nil /\ call.own = Nil) => call.ret = Nil
    /\ call.fn = "copyEdgeLimits" =>
         /\ Len(call.ret) = Len(call.own)
         /\ \A i \in 1..Len(call.own) :
              /\ \A f \in { "bufferMaxLength", "bufferUsageLimit" } :
                   Field(call.ret[i], f) =
                     IF Field(call.own[i], f) # Nil THEN Field(call.own[i], f)
                     ELSE IF Field(call.pl, f) # Nil THEN Field(call.pl, f)
                     ELSE Nil
              /\ (call.pl = Nil /\ call.own[i] = Nil) => call.ret[i] = Nil

\* the edge sets BufferMaxLength only, the pipeline sets both to other values:
\* the merged edge has its own BufferMaxLength and the pipeline's usage limit
C16_Witness ==
    /\ call.fn = "copyEdgeLimits"
    /\ Len(call.own) = 1
    /\ call.own[1] = Some([ bufferMaxLength |-> Some(2), bufferUsageLimit |-> Nil ])
    /\ Field(call.pl, "bufferMaxLength") = Some(1)
    /\ Field(call.pl, "bufferUsageLimit") = Some(1)
    /\ call.ret[1] = Some([ bufferMaxLength |-> Some(2), bufferUsageLimit |-> Some(1) ])

\* C17: needsUpdate(old, new) is true exactly when old is absent, or the
\* finalizer sets differ, or the spec hashes differ; it is false for an object
\* and its deep copy, and false when only the status differs.
C17_NeedsUpdate ==
    call.fn = "needsUpdate" =>
      /\ call.ret <=> \/ call.old = Nil
                      \/ call.old[1].finalizers # call.new.finalizers
                      \/ SpecHash(call.old[1].vertices) # SpecHash(call.new.vertices)
      /\ (call.old # Nil /\ call.new = DeepCopy(call.old[1])) => ~call.ret
      /\ (/\ call.old # Nil
          /\ call.old[1].finalizers = call.new.finalizers
          /\ call.old[1].vertices = call.new.vertices) => ~call.ret

\* old and new differ in status only, and needsUpdate said no
C17_Witness ==
    /\ call.fn = "needsUpdate"
    /\ call.old # Nil
    /\ call.old[1].finalizers = { FinalizerName }
    /\ call.old[1].finalizers = call.new.finalizers
    /\ call.old[1].vertices = call.new.vertices
    /\ call.old[1].phase # call.new.phase
    /\ ~call.ret

\* C18: buildVertices(p) returns one entry per pipeline vertex: as many
\* entries as p.vertices, under exactly the keys p.name + "-" + v.name, each
\* entry being the vertex of that name; and calling it again on the same
\* Pipeline gives the same map.
C18_BuildVertices ==
    call.fn = "buildVertices" =>
      /\ Cardinality(DOMAIN call.ret) = Len(call.vertices)
      /\ DOMAIN call.ret = { call.name \o "-" \o call.vertices[i] :
                               i \in 1..Len(call.vertices) }
      /\ \A i \in 1..Len(call.vertices) :
           LET v == call.ret[call.name \o "-" \o call.vertices[i]]
           IN v.name = call.vertices[i] /\ v.pipelineName = call.name
      /\ call.ret = buildVertices(call.name, call.vertices, ChainEdges(call.vertices))

\* buildVertices of test-pl with input -> cat -> output returned 3 entries,
\* one of them under "test-pl-input"
C18_Witness ==
    /\ call.fn = "buildVertices"
    /\ call.name = PipelineName
    /\ call.vertices = << "input", "cat", "output" >>
    /\ Cardinality(DOMAIN call.ret) = 3
    /\ "test-pl-input" \in DOMAIN call.ret
    /\ call.ret["test-pl-cat"].fromVertices = { "input" }
    /\ call.ret["test-pl-cat"].toVertices = { "output" }


\* ================================================================ commands
\* isbsvc-buffer-create and processor, run once on flags and an environment
\* drawn from small sets; call holds the inputs, the error returned ("" for
\* none) and what the command went on to do.

EnvPipelineName == "PipelineName"
EnvVertexObject == "VertexObject"
EnvPod == "Pod"
EnvReplica == "Replica"

\* "required environment variable '<name>' not defined"
MissingEnv(name) == "required environment variable '" \o name \o "' not defined"

\* the characters of s, one string each
Chars(s) == [ i \in 1..Len(s) |-> SubSeq(s, i, i) ]

\* ------------------------------------------------- isbsvc-buffer-create
BufferLists == { << >>, << "buffer1" >>, << "buffer1", "buffer2" >> }
ISBSvcTypes == { "", "redis", "jetstream", "nonono" }
SupportedISBSvcTypes == { "redis", "jetstream" }
PipelineNameEnvs == { Nil, Some(PipelineName) }

BufferCreateChecksEnvFirst == << "PipelineName", "buffers", "isbsvc-type" >>

\* the checks of the command, in the order it makes them
BufferCreateChecks == << "buffers", "PipelineName", "isbsvc-type" >>

BufferCreateFails(check, buffers, pipelineName, isbsvcType) ==
    CASE check = "buffers" -> Len(buffers) = 0
      [] check = "PipelineName" -> pipelineName = Nil
      [] check = "isbsvc-type" -> isbsvcType \notin SupportedISBSvcTypes

BufferCreateError(check, isbsvcType) ==
    CASE check = "buffers" -> "buffer list should not be empty"
      [] check = "PipelineName" -> MissingEnv(EnvPipelineName)
      [] check = "isbsvc-type" -> "unsupported isb service type \"" \o isbsvcType \o "\""

\* RunE of the command: the first failing check ends it; otherwise every
\* buffer is provisioned, unless the ISB service cannot be reached
ISBSvcBufferCreate(buffers, pipelineName, isbsvcType, brokerOk) ==
    LET failing == { i \in 1..Len(BufferCreateChecks) :
                       BufferCreateFails(BufferCreateChecks[i], buffers,
                                         pipelineName, isbsvcType) }
        first == CHOOSE i \in failing : \A j \in failing : i <= j
    IN IF failing # {}
       THEN [ err |-> BufferCreateError(BufferCreateChecks[first], isbsvcType),
              provisioned |-> {} ]
       ELSE IF brokerOk
       THEN [ err |-> "", provisioned |-> Range(buffers) ]
       ELSE [ err |-> "failed to create buffers", provisioned |-> {} ]

CallISBSvcBufferCreate ==
    /\ call = NoCall
    /\ \E buffers \in BufferLists, pipelineName \in PipelineNameEnvs,
          isbsvcType \in ISBSvcTypes, brokerOk \in BOOLEAN :
         call' = [ fn |-> "isbsvc-buffer-create", buffers |-> buffers,
                   pipelineName |-> pipelineName, isbsvcType |-> isbsvcType,
                   ret |-> ISBSvcBufferCreate(buffers, pipelineName, isbsvcType,
                                              brokerOk) ]
    /\ UNCHANGED << jsVars, ctlVars >>

\* --------------------------------------------------------------- processor
Base64Alphabet == "ABCDEFGHIJKLMNOPQRSTUVWXYZabcdefghijklmnopqrstuvwxyz0123456789+/"
Base64Chars == Range(Chars(Base64Alphabet))

\* base64.StdEncoding.DecodeString(s) returns no error: whole quanta of four
\* characters of the alphabet, the last one padded with at most two "="
Base64Valid(s) ==
    LET c == Chars(s)
        n == Len(s)
        pad == IF n > 0 /\ c[n] = "="
               THEN (IF n > 1 /\ c[n - 1] = "=" THEN 2 ELSE 1)
               ELSE 0
    IN /\ n % 4 = 0
       /\ \A i \in 1..(n - pad) : c[i] \in Base64Chars

Digits == Range(Chars("0123456789"))

\* strconv.Atoi(s) returns no error: an optional sign, then digits
IsInteger(s) ==
    LET c == Chars(s)
        start == IF Len(s) > 0 /\ c[1] \in { "+", "-" } THEN 2 ELSE 1
    IN /\ start <= Len(s)
       /\ \A i \in start..Len(s) : c[i] \in Digits

\* "e30=" is base64 of the JSON object {}
VertexObjectEnvs == { Nil, Some("xxxxx"), Some("e30"), Some("e30=") }
PodEnvs == { Nil, Some("xxxxx") }
ReplicaEnvs == { Nil, Some("$$$"), Some("2x"), Some("2"), Some("0") }
ProcessorTypes == { "", "source", "udf", "sink", "nonono" }

ProcessorChecksTypeFirst ==
    << "type", "VertexObject", "decode", "Pod", "Replica", "replica" >>

\* the checks of the command, in the order it makes them
ProcessorChecks ==
    << "VertexObject", "decode", "Pod", "Replica", "replica", "type" >>

ProcessorFails(check, vertexObject, pod, replica, type) ==
    CASE check = "VertexObject" -> vertexObject = Nil
      [] check = "decode" -> vertexObject # Nil /\ ~Base64Valid(vertexObject[1])
      [] check = "Pod" -> pod = Nil
      [] check = "Replica" -> replica = Nil
      [] check = "replica" -> replica # Nil /\ ~IsInteger(replica[1])
      [] check = "type" -> type \notin { "source", "udf", "sink" }

ProcessorError(check, replica, type) ==
    CASE check = "VertexObject" -> MissingEnv(EnvVertexObject)
      [] check = "decode" -> "failed to decode vertex string"
      [] check = "Pod" -> MissingEnv(EnvPod)
      [] check = "Replica" -> MissingEnv(EnvReplica)
      [] check = "replica" -> "invalid replica \"" \o replica[1] \o "\""
      [] check = "type" -> "unrecognized processor type \"" \o type \o "\""

\* RunE of the command: the first failing check ends it; otherwise the
\* processor is started and loops, unless its readers and writers cannot be set up
Processor(vertexObject, pod, replica, type, setupOk) ==
    LET failing == { i \in 1..Len(ProcessorChecks) :
                       ProcessorFails(ProcessorChecks[i], vertexObject, pod,
                                      replica, type) }
        first == CHOOSE i \in failing : \A j \in failing : i <= j
    IN IF failing # {}
       THEN [ err |-> ProcessorError(ProcessorChecks[first], replica, type),
              entered |-> FALSE ]
       ELSE IF setupOk
       THEN [ err |-> "", entered |-> TRUE ]
       ELSE [ err |-> "failed to start the processor", entered |-> FALSE ]

CallProcessor ==
    /\ call = NoCall
    /\ \E vertexObject \in VertexObjectEnvs, pod \in PodEnvs,
          replica \in ReplicaEnvs, type \in ProcessorTypes, setupOk \in BOOLEAN :
         call' = [ fn |-> "processor", vertexObject |-> vertexObject, pod |-> pod,
                   replica |-> replica, type |-> type,
                   ret |-> Processor(vertexObject, pod, replica, type, setupOk) ]
    /\ UNCHANGED << jsVars, ctlVars >>

CommandNext ==
    \/ CallISBSvcBufferCreate
    \/ CallProcessor

CommandSpec == Init /\ [][CommandNext]_vars

\* ----------------------------------------------------- claims on commands
\* C19: isbsvc-buffer-create reports the first failure of a fixed order: with
\* no buffers, "buffer list should not be empty", whatever PipelineName and
\* the type are; else with PipelineName unset, the missing-environment error,
\* whatever the type is; else with a type that is neither redis nor
\* jetstream, an error containing "unsupported isb service type"; and in each
\* of these cases no buffer is provisioned.
C19_BufferCreateOrder ==
    call.fn = "isbsvc-buffer-create" =>
      LET empty == call.buffers = << >>
          unset == call.pipelineName = Nil
          unknown == call.isbsvcType \notin { "redis", "jetstream" }
      IN /\ empty => call.ret.err = "buffer list should not be empty"
         /\ (~empty /\ unset) =>
              call.ret.err = "required environment variable 'PipelineName' not defined"
         /\ (~empty /\ ~unset /\ unknown) =>
              Contains(call.ret.err, "unsupported isb service type")
         /\ (empty \/ unset \/ unknown) => call.ret.provisioned = {}

\* the command ran with a buffer and an unsupported type but no PipelineName,
\* and reported the missing environment variable
C19_Witness ==
    /\ call.fn = "isbsvc-buffer-create"
    /\ call.buffers = << "buffer1" >>
    /\ call.pipelineName = Nil
    /\ call.isbsvcType = "nonono"
    /\ Contains(call.ret.err, "PipelineName")
    /\ ~Contains(call.ret.err, "unsupported")
    /\ call.ret.provisioned = {}

\* C20: processor fails at the first unmet requirement of a fixed order:
\* VertexObject unset, missing env; VertexObject not base64, "failed to decode
\* vertex string"; Pod unset, missing env; Replica unset, missing env; Replica
\* not an integer, "invalid replica"; --type not source, udf or sink,
\* "unrecognized processor type"; and the processing loop is entered in none
\* of these cases.
C20_ProcessorOrder ==
    call.fn = "processor" =>
      LET noVertex == call.vertexObject = Nil
          badVertex == ~noVertex /\ ~Base64Valid(call.vertexObject[1])
          noPod == call.pod = Nil
          noReplica == call.replica = Nil
          badReplica == ~noReplica /\ ~IsInteger(call.replica[1])
          badType == call.type \notin { "source", "udf", "sink" }
          vertexOk == ~noVertex /\ ~badVertex
          replicaOk == ~noReplica /\ ~badReplica
      IN /\ noVertex => Contains(call.ret.err, "VertexObject' not defined")
         /\ badVertex => Contains(call.ret.err, "failed to decode vertex string")
         /\ (vertexOk /\ noPod) => Contains(call.ret.err, "Pod' not defined")
         /\ (vertexOk /\ ~noPod /\ noReplica) =>
              Contains(call.ret.err, "Replica' not defined")
         /\ (vertexOk /\ ~noPod /\ badReplica) =>
              Contains(call.ret.err, "invalid replica")
         /\ (vertexOk /\ ~noPod /\ replicaOk /\ badType) =>
              Contains(call.ret.err, "unrecognized processor type")
         /\ (noVertex \/ badVertex \/ noPod \/ noReplica \/ badReplica \/ badType) =>
              ~call.ret.entered

\* the command ran with a decodable VertexObject, a Pod, Replica "$$$" and an
\* unknown type, and reported the replica
C20_Witness ==
    /\ call.fn = "processor"
    /\ call.vertexObject = Some("e30=")
    /\ call.pod # Nil
    /\ call.replica = Some("$$$")
    /\ call.type = "nonono"
    /\ Contains(call.ret.err, "invalid replica")
    /\ ~call.ret.entered


\* ============================================ further claims on the reader
\* C21 (as claimed): for every ack-wait, a delivered message that is not
\* ack'd, on an open connection, gets an in-progress refresh before its
\* ack-wait runs out: when the ack-wait of such a message has run out, its
\* offset has a heartbeat.
C21_RefreshForEveryAckWait ==
    \A o \in 1..nOffsets :
        (/\ ~off[o].ackd
         /\ conn = "open"
         /\ broker[off[o].seq].st = "inflight"
         /\ broker[off[o].seq].timer = 0)
            => off[o].hb # "none"

\* C21 (amended): a heartbeat is spawned exactly when the ack-wait is 3s or
\* more, and its tick is then shorter than the ack-wait; while the heartbeat
\* of an offset runs with a live context, on an open connection, its message,
\* unless ack'd, stays in flight, its ack-wait has not run out, and the next
\* tick comes before the ack-wait runs out.
C21_HeartbeatRefreshesInTime ==
    /\ rdState = "ready" =>
         /\ SpawnsHeartbeat(tickDuration) <=> ackWait >= 3
         /\ ackWait >= 3 => tickDuration < ackWait
    /\ \A o \in 1..nOffsets :
         (/\ off[o].hb = "run"
          /\ ~off[o].cancelled
          /\ conn = "open"
          /\ broker[off[o].seq].st # "acked")
            => /\ broker[off[o].seq].st = "inflight"
               /\ broker[off[o].seq].timer > 0
               /\ ~off[o].tickerC => off[o].tickTimer < broker[off[o].seq].timer

\* a tick of a live heartbeat is due and the ack-wait has not run out: the
\* notice about to be sent resets it
C21_Witness ==
    \E o \in 1..nOffsets :
        /\ off[o].hb = "run"
        /\ ~off[o].cancelled
        /\ ~off[o].ackd
        /\ conn = "open"
        /\ off[o].tickerC
        /\ broker[off[o].seq].st = "inflight"
        /\ broker[off[o].seq].timer > 0
        /\ broker[off[o].seq].timer < ackWait


\* C22: a Read whose fetch fails with an error other than a timeout returns
\* an error and no messages, adds exactly one to the read-error counter,
\* creates no offset and starts no heartbeat, and leaves the broker, the
\* subscription, the connection and the reader as they were, so that the
\* reader accepts a later Read.
C22_FetchErrorRead ==
    [][ (\E c \in BOOLEAN, n \in Counts : Read(c, n, "error")) =>
          /\ lastRead'.err = "err"
          /\ lastRead'.n = 0
          /\ readErrors' = readErrors + 1
          /\ nOffsets' = nOffsets
          /\ off' = off
          /\ broker' = broker
          /\ sub' = sub
          /\ conn' = conn
          /\ rdState' = "ready"
          /\ ack'.pc # "running"
          /\ closePc' = "idle" ]_vars

\* a Read delivered messages after an earlier Read had failed
C22_Witness ==
    /\ lastRead.outcome = "ok"
    /\ lastRead.n >= 1
    /\ lastRead.err = "nil"
    /\ lastRead.errorsBefore >= 1
    /\ readErrors = lastRead.errorsBefore


\* C23 (as claimed): once the broker ack of an AckIt on an offset has failed
\* with an error, the message receives no further in-progress refresh from
\* that offset's heartbeat.
C23_NoRefreshAfterFailedAck ==
    [][ \A i \in DoneTasks :
          (/\ ack.outcome[i] = "error"
           /\ HBTick(ack.offsets[i])
           /\ InProgressSent(ack.offsets[i]))
              => broker[off[ack.offsets[i]].seq].st # "inflight" ]_vars

\* C23 (amended): an AckIt whose broker ack fails with an error returns the
\* error, with the context of the offset's heartbeat already cancelled, and
\* leaves the offset and its message un-ack'd; a cancelled context is never
\* un-cancelled and a heartbeat that has returned, or was never started, never
\* runs again; an AckIt on an offset that is not ack'd, cancelled or not, still
\* gets its answer from the broker rather than "already ack'd".
C23_FailedAckKeepsHeartbeatCancelled ==
    [][ /\ \A o \in 1..nOffsets :
             /\ off[o].cancelled => off'[o].cancelled
             /\ off[o].hb # "run" => off'[o].hb = off[o].hb
        /\ \A i \in 1..MaxBatch :
             AckItAckSync(i, "error") =>
                 /\ ack'.errs[i] = "err"
                 /\ off[ack.offsets[i]].hasCancel => off[ack.offsets[i]].cancelled
                 /\ ~off'[ack.offsets[i]].ackd
                 /\ broker' = broker
        /\ \A i \in 1..MaxBatch :
             AckItAckSync(i, "alreadyAckd") => off[ack.offsets[i]].ackd ]_vars

\* two AckIt on one offset that had a heartbeat: the broker ack of the first
\* failed, the heartbeat has returned, and the second one reached the broker
\* and ack'd the message
C23_Witness ==
    /\ Len(ack.offsets) = 2
    /\ ack.offsets[1] = ack.offsets[2]
    /\ ack.task = << "done", "done" >>
    /\ ack.outcome = << "error", "ok" >>
    /\ ack.errs = << "err", "nil" >>
    /\ ~ack.wasAckd[2]
    /\ off[ack.offsets[1]].hasCancel
    /\ off[ack.offsets[1]].hb = "done"
    /\ broker[off[ack.offsets[1]].seq].st = "acked"

=============================================================================
